---- MODULE Spec2Model ----
(***************************************************************************)
(* A model of the InfluxDB administrative HTTP handler (handler.go): the   *)
(* credential extractor, the authentication wrapper, the routing table and *)
(* the per-resource handlers, run against a model of the server (store).   *)
(*                                                                         *)
(* Data strings that pass through the credential extractor (user names,    *)
(* passwords, the Authorization header, node ids) are sequences of bytes,  *)
(* so that strings.Split, Base64 and strconv.ParseUint are computed.       *)
(* Method names, route patterns, database names, URLs and messages are     *)
(* TLA+ strings.                                                           *)
(***************************************************************************)
EXTENDS Integers, Sequences, FiniteSets, TLC

VARIABLES
    AuthenticationEnabled, \* Handler.AuthenticationEnabled
    store,                 \* the state of Handler.server
    last,                  \* the request being answered: its trace and response
    prevBootstrap,         \* history: the request before was a successful admin creation without credentials
    unauthCreates,         \* history: users created by requests that never authenticated
    procs                  \* the requests in flight (concurrent runs)

vars == <<AuthenticationEnabled, store, last, prevBootstrap, unauthCreates, procs>>

---------------------------------------------------------------------------
(* Bounds of the model *)

\* The store assigns data node ids 1..MaxNodeID; no node is created beyond.
MaxNodeID == 1
\* The history counter unauthCreates stops counting at this value.
MaxUnauth == 2
\* Number of requests that can be in flight together.
NProcs == 2
\* Longest user name and password of the Authorization headers built for the
\* extractor.
MaxLen == 2

---------------------------------------------------------------------------
(* HTTP status codes used by the handler *)

StatusOK == 200
StatusCreated == 201
StatusNoContent == 204
StatusBadRequest == 400
StatusUnauthorized == 401
StatusNotFound == 404
StatusMethodNotAllowed == 405
StatusConflict == 409
StatusInternalServerError == 500

\* A nil error.
Nil == "<nil>"

---------------------------------------------------------------------------
(* Byte strings *)

\* ' ' and ':' and '=' as bytes.
Space == 32
Colon == 58
Pad == 61

\* "Basic"
sBasic == <<66, 97, 115, 105, 99>>
\* "a", "b": user names;  "p", "q": passwords
sA == <<97>>
sB == <<98>>
sP == <<112>>
sQ == <<113>>
Empty == <<>>

\* strings.Split(s, sep) for a one-byte separator: the n+1 fields around the
\* n occurrences of sep; a string without sep (the empty one too) is one field.
RECURSIVE Split(_, _)
Split(s, sep) ==
    IF \A i \in 1..Len(s) : s[i] # sep
    THEN <<s>>
    ELSE LET i == CHOOSE k \in 1..Len(s) :
                     s[k] = sep /\ \A j \in 1..(k - 1) : s[j] # sep
         IN  <<SubSeq(s, 1, i - 1)>> \o Split(SubSeq(s, i + 1, Len(s)), sep)

\* The value of a byte in the standard Base64 alphabet, -1 outside it.
B64Value(c) ==
    CASE c \in 65..90  -> c - 65
      [] c \in 97..122 -> c - 71
      [] c \in 48..57  -> c + 4
      [] c = 43        -> 62
      [] c = 47        -> 63
      [] OTHER         -> -1

\* The byte of a 6-bit value in the standard Base64 alphabet.
B64Char(v) ==
    CASE v \in 0..25  -> v + 65
      [] v \in 26..51 -> v + 71
      [] v \in 52..61 -> v - 4
      [] v = 62       -> 43
      [] OTHER        -> 47

\* base64.StdEncoding.EncodeToString: three bytes to four characters, the
\* last group padded with '='.
RECURSIVE B64Encode(_)
B64Encode(bs) ==
    IF Len(bs) = 0 THEN <<>>
    ELSE IF Len(bs) = 1 THEN
        <<B64Char(bs[1] \div 4), B64Char((bs[1] % 4) * 16), Pad, Pad>>
    ELSE IF Len(bs) = 2 THEN
        <<B64Char(bs[1] \div 4),
          B64Char((bs[1] % 4) * 16 + bs[2] \div 16),
          B64Char((bs[2] % 16) * 4), Pad>>
    ELSE
        <<B64Char(bs[1] \div 4),
          B64Char((bs[1] % 4) * 16 + bs[2] \div 16),
          B64Char((bs[2] % 16) * 4 + bs[3] \div 64),
          B64Char(bs[3] % 64)>> \o B64Encode(SubSeq(bs, 4, Len(bs)))

\* The groups of four characters of a padded Base64 text, decoded; padding
\* is accepted in the last group only ("xx==" or "xxx=").
RECURSIVE B64DecodeQuanta(_)
B64DecodeQuanta(s) ==
    IF Len(s) = 0 THEN [err |-> FALSE, bytes |-> <<>>]
    ELSE
        LET a == B64Value(s[1])
            b == B64Value(s[2])
            c == B64Value(s[3])
            d == B64Value(s[4])
            rest == SubSeq(s, 5, Len(s))
            bad == [err |-> TRUE, bytes |-> <<>>]
        IN  IF a < 0 \/ b < 0 THEN bad
            ELSE IF s[3] = Pad THEN
                IF s[4] = Pad /\ Len(rest) = 0
                THEN [err |-> FALSE, bytes |-> <<a * 4 + b \div 16>>]
                ELSE bad
            ELSE IF c < 0 THEN bad
            ELSE IF s[4] = Pad THEN
                IF Len(rest) = 0
                THEN [err |-> FALSE,
                      bytes |-> <<a * 4 + b \div 16, (b % 16) * 16 + c \div 4>>]
                ELSE bad
            ELSE IF d < 0 THEN bad
            ELSE LET r == B64DecodeQuanta(rest)
                 IN  IF r.err THEN bad
                     ELSE [err |-> FALSE,
                           bytes |-> <<a * 4 + b \div 16,
                                       (b % 16) * 16 + c \div 4,
                                       (c % 4) * 64 + d>> \o r.bytes]

\* base64.StdEncoding.DecodeString: '\r' and '\n' are dropped, the rest must
\* be whole groups of four characters.
B64Decode(s) ==
    LET t == SelectSeq(s, LAMBDA c : c \notin {10, 13})
    IN  IF Len(t) % 4 # 0 THEN [err |-> TRUE, bytes |-> <<>>]
        ELSE B64DecodeQuanta(t)

\* strconv.ParseUint(s, 10, 64) for the short ids of the model: one or more
\* decimal digits.
RECURSIVE DecimalValue(_)
DecimalValue(s) ==
    IF Len(s) = 0 THEN 0
    ELSE DecimalValue(SubSeq(s, 1, Len(s) - 1)) * 10 + (s[Len(s)] - 48)

ParseUint(s) ==
    IF Len(s) = 0 \/ \E i \in 1..Len(s) : s[i] \notin 48..57
    THEN [err |-> TRUE, value |-> 0]
    ELSE [err |-> FALSE, value |-> DecimalValue(s)]

---------------------------------------------------------------------------
(* The credential extractor *)

ErrBasicHeader == "invalid Basic Authentication header"
ErrBase64 == "invalid Base64 encoding"
ErrBasicValue == "invalid Basic Authentication value"

\* getUsernameAndPassword with a decoded value of more than two fields
\* accepted: its first two fields are taken.
getUsernameAndPasswordLenient(r) ==
    LET none == [username |-> Empty, password |-> Empty, err |-> Nil]
        fail(e) == [username |-> Empty, password |-> Empty, err |-> e]
    IN  IF r.u # Empty /\ r.p # Empty
        THEN [username |-> r.u, password |-> r.p, err |-> Nil]
        ELSE IF r.auth = Empty THEN none
        ELSE LET fields == Split(r.auth, Space)
             IN  IF Len(fields) # 2 THEN fail(ErrBasicHeader)
                 ELSE LET bs == B64Decode(fields[2])
                      IN  IF bs.err THEN fail(ErrBase64)
                          ELSE LET f2 == Split(bs.bytes, Colon)
                               IN  IF Len(f2) < 2 THEN fail(ErrBasicValue)
                                   ELSE [username |-> f2[1],
                                         password |-> f2[2],
                                         err |-> Nil]

\* getUsernameAndPassword with the second token of the header taken as it
\* is, not decoded.
getUsernameAndPasswordUndecoded(r) ==
    LET none == [username |-> Empty, password |-> Empty, err |-> Nil]
        fail(e) == [username |-> Empty, password |-> Empty, err |-> e]
    IN  IF r.u # Empty /\ r.p # Empty
        THEN [username |-> r.u, password |-> r.p, err |-> Nil]
        ELSE IF r.auth = Empty THEN none
        ELSE LET fields == Split(r.auth, Space)
             IN  IF Len(fields) # 2 THEN fail(ErrBasicHeader)
                 ELSE LET f2 == Split(fields[2], Colon)
                      IN  IF Len(f2) # 2 THEN fail(ErrBasicValue)
                          ELSE [username |-> f2[1],
                                password |-> f2[2],
                                err |-> Nil]

\* getUsernameAndPassword: the u and p query parameters when both are
\* non-empty, else the Authorization header, else empty credentials.
getUsernameAndPassword(r) ==
    LET none == [username |-> Empty, password |-> Empty, err |-> Nil]
        fail(e) == [username |-> Empty, password |-> Empty, err |-> e]
    IN  IF r.u # Empty /\ r.p # Empty
        THEN [username |-> r.u, password |-> r.p, err |-> Nil]
        ELSE IF r.auth = Empty THEN none
        ELSE LET fields == Split(r.auth, Space)
             IN  IF Len(fields) # 2 THEN fail(ErrBasicHeader)
                 ELSE LET bs == B64Decode(fields[2])
                      IN  IF bs.err THEN fail(ErrBase64)
                          ELSE LET f2 == Split(bs.bytes, Colon)
                               IN  IF Len(f2) # 2 THEN fail(ErrBasicValue)
                                   ELSE [username |-> f2[1],
                                         password |-> f2[2],
                                         err |-> Nil]

---------------------------------------------------------------------------
(* The server (the resource store): users, databases, retention policies   *)
(* and data nodes.  Every operation is atomic and returns an error (Nil on *)
(* success) and the store it leaves.                                       *)

ErrUserExists == "user exists"
ErrUserNotFound == "user not found"
ErrInvalidPassword == "invalid password"
ErrDatabaseExists == "database exists"
ErrDatabaseNotFound == "database not found"
ErrDatabaseNameRequired == "database name required"
ErrRetentionPolicyExists == "retention policy exists"
ErrRetentionPolicyNotFound == "retention policy not found"
ErrDataNodeExists == "data node exists"
ErrDataNodeNotFound == "data node not found"

NoUsers == [n \in {} |-> n]

EmptyStore ==
    [users |-> NoUsers, dbs |-> {}, rps |-> {}, nodes |-> {}, nextID |-> 1]

\* A nil *User, and the *User of a stored user.
NilUser == [nil |-> TRUE, name |-> Empty, admin |-> FALSE]
UserOf(s, name) == [nil |-> FALSE, name |-> name, admin |-> s.users[name].admin]

\* Server.AuthenticatedUser: the user of that name when the password is his.
\* Empty credentials name no user.
AuthenticatedUser(s, username, password) ==
    IF username = Empty \/ username \notin DOMAIN s.users
    THEN [err |-> ErrUserNotFound, user |-> NilUser]
    ELSE IF s.users[username].password # password
    THEN [err |-> ErrInvalidPassword, user |-> NilUser]
    ELSE [err |-> Nil, user |-> UserOf(s, username)]

\* Server.AdminUserExists
AdminUserExists(s) == \E n \in DOMAIN s.users : s.users[n].admin

\* Server.Users: name and admin flag (and the stored password) of every user.
Users(s) ==
    {[name |-> n, password |-> s.users[n].password, admin |-> s.users[n].admin] :
        n \in DOMAIN s.users}

\* Server.CreateUser: rejects a name that is taken, and nothing else.
CreateUser(s, name, password, admin) ==
    IF name \in DOMAIN s.users
    THEN [err |-> ErrUserExists, s |-> s]
    ELSE [err |-> Nil,
          s |-> [s EXCEPT !.users =
                    (name :> [password |-> password, admin |-> admin]) @@ @]]

\* Server.UpdateUser: a partial update of an existing user; the password
\* is replaced when one is given.
UpdateUser(s, name, password) ==
    IF name \notin DOMAIN s.users
    THEN [err |-> ErrUserNotFound, s |-> s]
    ELSE IF password = Empty
    THEN [err |-> Nil, s |-> s]
    ELSE [err |-> Nil, s |-> [s EXCEPT !.users[name].password = password]]

\* Server.DeleteUser
DeleteUser(s, name) ==
    IF name \notin DOMAIN s.users
    THEN [err |-> ErrUserNotFound, s |-> s]
    ELSE [err |-> Nil,
          s |-> [s EXCEPT !.users =
                    [n \in (DOMAIN s.users) \ {name} |-> s.users[n]]]]

\* Server.Databases
Databases(s) == s.dbs

\* Server.CreateDatabase
CreateDatabase(s, name) ==
    IF name \in s.dbs
    THEN [err |-> ErrDatabaseExists, s |-> s]
    ELSE [err |-> Nil, s |-> [s EXCEPT !.dbs = @ \cup {name}]]

\* Server.DeleteDatabase: the database goes with its retention policies.
DeleteDatabase(s, name) ==
    IF name \notin s.dbs
    THEN [err |-> ErrDatabaseNotFound, s |-> s]
    ELSE [err |-> Nil,
          s |-> [s EXCEPT !.dbs = @ \ {name},
                          !.rps = {rp \in @ : rp.db # name}]]

\* Server.Shards: the shards of a database; no operation of the handler
\* creates a shard, so an existing database has none.
Shards(s, db) ==
    IF db \notin s.dbs
    THEN [err |-> ErrDatabaseNotFound, shards |-> {}]
    ELSE [err |-> Nil, shards |-> {}]

\* Server.RetentionPolicies
RetentionPolicies(s, db) ==
    IF db \notin s.dbs
    THEN [err |-> ErrDatabaseNotFound, policies |-> {}]
    ELSE [err |-> Nil, policies |-> {rp \in s.rps : rp.db = db}]

\* Server.CreateRetentionPolicy: the policy name is unique in its database.
CreateRetentionPolicy(s, db, policy) ==
    IF db \notin s.dbs
    THEN [err |-> ErrDatabaseNotFound, s |-> s]
    ELSE IF [db |-> db, name |-> policy.name] \in s.rps
    THEN [err |-> ErrRetentionPolicyExists, s |-> s]
    ELSE [err |-> Nil,
          s |-> [s EXCEPT !.rps = @ \cup {[db |-> db, name |-> policy.name]}]]

\* Server.UpdateRetentionPolicy: the attributes of a policy are opaque here.
UpdateRetentionPolicy(s, db, name, policy) ==
    IF db \notin s.dbs
    THEN [err |-> ErrDatabaseNotFound, s |-> s]
    ELSE IF [db |-> db, name |-> name] \notin s.rps
    THEN [err |-> ErrRetentionPolicyNotFound, s |-> s]
    ELSE [err |-> Nil, s |-> s]

\* Server.DeleteRetentionPolicy
DeleteRetentionPolicy(s, db, name) ==
    IF db \notin s.dbs
    THEN [err |-> ErrDatabaseNotFound, s |-> s]
    ELSE IF [db |-> db, name |-> name] \notin s.rps
    THEN [err |-> ErrRetentionPolicyNotFound, s |-> s]
    ELSE [err |-> Nil,
          s |-> [s EXCEPT !.rps = @ \ {[db |-> db, name |-> name]}]]

\* Server.DataNodes
DataNodes(s) == s.nodes

\* Server.CreateDataNode: one node per URL; the store assigns the next id.
CreateDataNode(s, url) ==
    IF \E n \in s.nodes : n.url = url
    THEN [err |-> ErrDataNodeExists, s |-> s]
    ELSE [err |-> Nil,
          s |-> [s EXCEPT !.nodes = @ \cup {[id |-> s.nextID, url |-> url]},
                          !.nextID = @ + 1]]

\* Server.DataNodeByURL: the node of that URL, or nil.
DataNodeByURL(s, url) ==
    IF \E n \in s.nodes : n.url = url
    THEN [nil |-> FALSE, node |-> CHOOSE n \in s.nodes : n.url = url]
    ELSE [nil |-> TRUE, node |-> [id |-> 0, url |-> ""]]

\* Server.DeleteDataNode
DeleteDataNode(s, id) ==
    IF \A n \in s.nodes : n.id # id
    THEN [err |-> ErrDataNodeNotFound, s |-> s]
    ELSE [err |-> Nil, s |-> [s EXCEPT !.nodes = {n \in @ : n.id # id}]]

---------------------------------------------------------------------------
(* http.ResponseWriter: the header map, and what has been sent.  The       *)
(* status line and the headers are committed by the first WriteHeader or   *)
(* Write; a header added later is not sent.                                *)

NewResponseWriter ==
    [header |-> {}, committed |-> FALSE, status |-> 0, sent |-> {},
     body |-> <<>>, panicked |-> FALSE]

HeaderAdd(w, name, value) == [w EXCEPT !.header = @ \cup {<<name, value>>}]

HeaderSet(w, name, value) ==
    [w EXCEPT !.header = {h \in @ : h[1] # name} \cup {<<name, value>>}]

WriteHeader(w, code) ==
    IF w.committed THEN w
    ELSE [w EXCEPT !.committed = TRUE, !.status = code, !.sent = w.header]

Write(w, text, json) ==
    LET w1 == WriteHeader(w, StatusOK)
    IN  [w1 EXCEPT !.body = Append(@, [text |-> text, json |-> json])]

\* http.Error: a plain-text body under the given status.
HttpError(w, msg, code) ==
    Write(WriteHeader(HeaderSet(w, "Content-Type", "text/plain; charset=utf-8"),
                      code),
          msg, <<>>)

\* json.NewEncoder(w).Encode(v)
EncodeJSON(w, v) == Write(w, "", <<v>>)

\* net/http answers 200 for a handler that returned without writing.
FinishResponse(w) == IF w.panicked THEN w ELSE WriteHeader(w, StatusOK)

---------------------------------------------------------------------------
(* The context a handler runs in: the response writer, the store, and the  *)
(* trace of the calls made for the request.                                *)

NewContext(s) == [w |-> NewResponseWriter, s |-> s, log |-> <<>>]

\* A call recorded in the trace: op, its arguments, and its result as text.
Traced(c, op, arg, res) ==
    [c EXCEPT !.log = Append(@, [op |-> op, arg |-> arg, res |-> res])]

\* A store operation that returns (error, store): applied and recorded.
StoreCall(c, op, arg, out) ==
    [Traced(c, op, arg, out.err) EXCEPT !.s = out.s]

BoolText(b) == IF b THEN "true" ELSE "false"

\* Handler.error
error(c, msg, code) == [c EXCEPT !.w = HttpError(c.w, msg, code)]

---------------------------------------------------------------------------
(* Request bodies: ok is whether the body is well-formed JSON, fields its  *)
(* object's fields.  Decoding leaves the zero value in a field the body    *)
(* does not have.                                                          *)

NoFields == [k \in {} |-> k]
Field(b, k, zero) == IF k \in DOMAIN b.fields THEN b.fields[k] ELSE zero

\* Decode into userJSON
DecodeUserJSON(b) ==
    [err |-> IF b.ok THEN Nil ELSE "invalid character",
     Name |-> Field(b, "name", Empty),
     Password |-> Field(b, "password", Empty),
     Admin |-> Field(b, "admin", FALSE)]

\* Decode into struct{Name string}
DecodeNameJSON(b) ==
    [err |-> IF b.ok THEN Nil ELSE "invalid character",
     Name |-> Field(b, "name", "")]

\* Decode into RetentionPolicy
DecodeRetentionPolicy(b) ==
    [err |-> IF b.ok THEN Nil ELSE "invalid character",
     name |-> Field(b, "name", "")]

\* Decode into dataNodeJSON
DecodeDataNodeJSON(b) ==
    [err |-> IF b.ok THEN Nil ELSE "invalid character",
     ID |-> Field(b, "id", 0),
     URL |-> Field(b, "url", "")]

\* url.Parse on the URLs of the model: an invalid escape and a missing
\* scheme before "://" are errors; the empty and the relative URL parse.
MalformedURLs == {"%zz", "://h1"}
UrlParse(raw) == [err |-> raw \in MalformedURLs, url |-> raw]

\* influxql ParseQuery on the query strings of the model.
MalformedQueries == {"bad sql"}
ParseQuery(q) == [err |-> IF q \in MalformedQueries THEN "found bad" ELSE Nil]

---------------------------------------------------------------------------
(* The resource handlers.  Each takes the context, the request and the     *)
(* identity the wrapper hands it, and returns the context it leaves.       *)

\* serveQuery: parses the q parameter; execution is not implemented.
serveQuery(c, r, u) ==
    LET q == ParseQuery(r.q)
    IN  IF q.err # Nil
        THEN error(c, "parse error: found bad", StatusBadRequest)
        ELSE c

\* serveWriteSeries: not implemented.
serveWriteSeries(c, r, u) == c

\* serveDatabases
serveDatabases(c, r, u) ==
    LET c1 == Traced(c, "Databases", <<>>, Nil)
        w1 == HeaderAdd(c1.w, "Content-Type", "application/json")
    IN  [c1 EXCEPT !.w = EncodeJSON(w1, Databases(c.s))]

\* serveCreateDatabase without the case of ErrDatabaseExists: every error of
\* the store is answered 500.
serveCreateDatabaseNoConflict(c, r, u) ==
    LET req == DecodeNameJSON(r.body)
    IN  IF req.err # Nil THEN error(c, req.err, StatusBadRequest)
        ELSE IF req.Name = ""
        THEN error(c, ErrDatabaseNameRequired, StatusBadRequest)
        ELSE LET out == CreateDatabase(c.s, req.Name)
                 c1 == StoreCall(c, "CreateDatabase", <<req.Name>>, out)
             IN  IF out.err # Nil
                 THEN error(c1, out.err, StatusInternalServerError)
                 ELSE [c1 EXCEPT !.w = WriteHeader(@, StatusCreated)]

\* serveCreateDatabase
serveCreateDatabase(c, r, u) ==
    LET req == DecodeNameJSON(r.body)
    IN  IF req.err # Nil THEN error(c, req.err, StatusBadRequest)
        ELSE IF req.Name = ""
        THEN error(c, ErrDatabaseNameRequired, StatusBadRequest)
        ELSE LET out == CreateDatabase(c.s, req.Name)
                 c1 == StoreCall(c, "CreateDatabase", <<req.Name>>, out)
             IN  IF out.err = ErrDatabaseExists
                 THEN error(c1, out.err, StatusConflict)
                 ELSE IF out.err # Nil
                 THEN error(c1, out.err, StatusInternalServerError)
                 ELSE [c1 EXCEPT !.w = WriteHeader(@, StatusCreated)]

\* serveDeleteDatabase
serveDeleteDatabase(c, r, u) ==
    LET out == DeleteDatabase(c.s, r.args.name)
        c1 == StoreCall(c, "DeleteDatabase", <<r.args.name>>, out)
    IN  IF out.err = ErrDatabaseNotFound
        THEN error(c1, out.err, StatusNotFound)
        ELSE IF out.err # Nil
        THEN error(c1, out.err, StatusInternalServerError)
        ELSE [c1 EXCEPT !.w = WriteHeader(@, StatusNoContent)]

\* serveAuthenticate: a placeholder.
serveAuthenticate(c, r) == c

\* serveUsers with the password of each user copied into its summary.
serveUsersWithPassword(c, r, u) ==
    LET c1 == Traced(c, "Users", <<>>, Nil)
        a == {[Name |-> x.name, Password |-> x.password, Admin |-> x.admin] :
                x \in Users(c.s)}
        w1 == HeaderAdd(c1.w, "Content-Type", "application/json")
    IN  [c1 EXCEPT !.w = EncodeJSON(w1, a)]

\* serveUsers: name and admin flag of every user; the password is left out.
serveUsers(c, r, u) ==
    LET c1 == Traced(c, "Users", <<>>, Nil)
        a == {[Name |-> x.name, Password |-> Empty, Admin |-> x.admin] :
                x \in Users(c.s)}
        w1 == HeaderAdd(c1.w, "Content-Type", "application/json")
    IN  [c1 EXCEPT !.w = EncodeJSON(w1, a)]

\* The authenticator's answer for the extracted credentials: 401 when it is
\* an error.
authenticated(c, cred, au) ==
    LET c2 == Traced(c, "AuthenticatedUser", <<cred.username, cred.password>>, au.err)
    IN  IF au.err # Nil
        THEN [c |-> error(c2, au.err, StatusUnauthorized), ok |-> FALSE, user |-> NilUser]
        ELSE [c |-> c2, ok |-> TRUE, user |-> au.user]

\* The extractor's answer: 401 when it is an error, else the authenticator
\* is asked.
extracted(c, cred) ==
    LET c1 == Traced(c, "getUsernameAndPassword", <<>>, cred.err)
    IN  IF cred.err # Nil
        THEN [c |-> error(c1, cred.err, StatusUnauthorized), ok |-> FALSE, user |-> NilUser]
        ELSE authenticated(c1, cred,
                           AuthenticatedUser(c.s, cred.username, cred.password))

\* The credential check of makeAuthenticationHandler (lines 133-143) and of
\* serveCreateUser (lines 332-342): ok with the user of the credentials, or
\* 401 written.
checkCredentials(c, r) == extracted(c, getUsernameAndPassword(r))

\* createUserCheck with && for ||: the credentials are checked only for a
\* user who is no admin when an admin exists.
createUserCheckBoth(c, newUser) ==
    IF ~AuthenticationEnabled
    THEN [c |-> c, need |-> FALSE]
    ELSE LET exists == AdminUserExists(c.s)
         IN  [c |-> Traced(c, "AdminUserExists", <<>>, BoolText(exists)),
              need |-> exists /\ ~newUser.Admin]

\* createUserCheck with the answer of AdminUserExists ignored: an admin is
\* created without credentials at any time.
createUserCheckAdminFlagOnly(c, newUser) ==
    IF ~AuthenticationEnabled
    THEN [c |-> c, need |-> FALSE]
    ELSE LET exists == AdminUserExists(c.s)
         IN  [c |-> Traced(c, "AdminUserExists", <<>>, BoolText(exists)),
              need |-> ~newUser.Admin]

\* serveCreateUser, line 331: whether the credentials are to be checked.
\* AdminUserExists is asked only when authentication is enabled.
createUserCheck(c, newUser) ==
    IF ~AuthenticationEnabled
    THEN [c |-> c, need |-> FALSE]
    ELSE LET exists == AdminUserExists(c.s)
         IN  [c |-> Traced(c, "AdminUserExists", <<>>, BoolText(exists)),
              need |-> exists \/ ~newUser.Admin]

\* serveCreateUser, lines 345-352: the user is created after the step before
\* (a.ok); no status is written on success.
createUserStore(a, newUser, out) ==
    LET c1 == StoreCall(a.c, "CreateUser",
                        <<newUser.Name, newUser.Password, newUser.Admin>>, out)
    IN  IF ~a.ok THEN a.c
        ELSE IF out.err = ErrUserExists
        THEN error(c1, out.err, StatusConflict)
        ELSE IF out.err # Nil
        THEN error(c1, out.err, StatusInternalServerError)
        ELSE c1

\* serveCreateUser, lines 331-352, for the context a the credential check
\* left.
createUserChecked(a, newUser) ==
    createUserStore(a, newUser,
                    CreateUser(a.c.s, newUser.Name, newUser.Password, newUser.Admin))

\* createUserAuthenticate without the returns of lines 335 and 341: the user
\* is created after a failed check too.
createUserAuthenticateNoReturn(chk, r) ==
    IF chk.need THEN [checkCredentials(chk.c, r) EXCEPT !.ok = TRUE]
    ELSE [c |-> chk.c, ok |-> TRUE, user |-> NilUser]

\* serveCreateUser, lines 331-342: the credential check, when it is needed.
createUserAuthenticate(chk, r) ==
    IF chk.need THEN checkCredentials(chk.c, r)
    ELSE [c |-> chk.c, ok |-> TRUE, user |-> NilUser]

\* serveCreateUser
serveCreateUser(c, r) ==
    LET newUser == DecodeUserJSON(r.body)
    IN  IF newUser.err # Nil THEN error(c, newUser.err, StatusBadRequest)
        ELSE createUserChecked(
                createUserAuthenticate(createUserCheck(c, newUser), r), newUser)

\* serveUpdateUser: the body is decoded into u, the identity, and not into
\* user, whose password stays the zero value.
serveUpdateUser(c, r, u) ==
    LET user == [Name |-> Empty, Password |-> Empty, Admin |-> FALSE]
        dec == DecodeUserJSON(r.body)
    IN  IF dec.err # Nil THEN error(c, dec.err, StatusBadRequest)
        ELSE LET out == UpdateUser(c.s, r.args.user, user.Password)
                 c1 == StoreCall(c, "UpdateUser",
                                 <<r.args.user, user.Password>>, out)
             IN  IF out.err = ErrUserNotFound
                 THEN error(c1, out.err, StatusNotFound)
                 ELSE IF out.err # Nil
                 THEN error(c1, out.err, StatusInternalServerError)
                 ELSE [c1 EXCEPT !.w = WriteHeader(@, StatusNoContent)]

\* serveDeleteUser with an authorization check: a caller who is no admin is
\* refused.
serveDeleteUserAdminOnly(c, r, u) ==
    LET out == DeleteUser(c.s, r.args.user)
        c1 == StoreCall(c, "DeleteUser", <<r.args.user>>, out)
    IN  IF ~u.nil /\ ~u.admin
        THEN error(c, "not authorized", StatusUnauthorized)
        ELSE IF out.err = ErrUserNotFound
        THEN error(c1, out.err, StatusNotFound)
        ELSE IF out.err # Nil
        THEN error(c1, out.err, StatusInternalServerError)
        ELSE [c1 EXCEPT !.w = WriteHeader(@, StatusNoContent)]

\* serveDeleteUser
serveDeleteUser(c, r, u) ==
    LET out == DeleteUser(c.s, r.args.user)
        c1 == StoreCall(c, "DeleteUser", <<r.args.user>>, out)
    IN  IF out.err = ErrUserNotFound
        THEN error(c1, out.err, StatusNotFound)
        ELSE IF out.err # Nil
        THEN error(c1, out.err, StatusInternalServerError)
        ELSE [c1 EXCEPT !.w = WriteHeader(@, StatusNoContent)]

\* servePing
servePing(c, r, u) == c

\* serveShards
serveShards(c, r, u) ==
    LET out == Shards(c.s, r.args.db)
        c1 == Traced(c, "Shards", <<r.args.db>>, out.err)
    IN  IF out.err = ErrDatabaseNotFound
        THEN error(c1, out.err, StatusNotFound)
        ELSE IF out.err # Nil
        THEN error(c1, out.err, StatusInternalServerError)
        ELSE LET w1 == HeaderAdd(c1.w, "Content-Type", "application/json")
             IN  [c1 EXCEPT !.w = EncodeJSON(w1, out.shards)]

\* serveDeleteShard: an empty function.
serveDeleteShard(c, r, u) == c

\* serveRetentionPolicies
serveRetentionPolicies(c, r, u) ==
    LET out == RetentionPolicies(c.s, r.args.db)
        c1 == Traced(c, "RetentionPolicies", <<r.args.db>>, out.err)
    IN  IF out.err = ErrDatabaseNotFound
        THEN error(c1, out.err, StatusNotFound)
        ELSE IF out.err # Nil
        THEN error(c1, out.err, StatusInternalServerError)
        ELSE LET w1 == HeaderAdd(c1.w, "Content-Type", "application/json")
             IN  [c1 EXCEPT !.w = EncodeJSON(w1, out.policies)]

\* serveCreateRetentionPolicy without the case of ErrDatabaseNotFound, which
\* is then answered as an internal error.
serveCreateRetentionPolicyNoNotFound(c, r, u) ==
    LET policy == DecodeRetentionPolicy(r.body)
    IN  IF policy.err # Nil THEN error(c, policy.err, StatusBadRequest)
        ELSE LET out == CreateRetentionPolicy(c.s, r.args.db, policy)
                 c1 == StoreCall(c, "CreateRetentionPolicy",
                                 <<r.args.db, policy.name>>, out)
             IN  IF out.err = ErrRetentionPolicyExists
                 THEN error(c1, out.err, StatusConflict)
                 ELSE IF out.err # Nil
                 THEN error(c1, out.err, StatusInternalServerError)
                 ELSE [c1 EXCEPT !.w = WriteHeader(@, StatusCreated)]

\* serveCreateRetentionPolicy
serveCreateRetentionPolicy(c, r, u) ==
    LET policy == DecodeRetentionPolicy(r.body)
    IN  IF policy.err # Nil THEN error(c, policy.err, StatusBadRequest)
        ELSE LET out == CreateRetentionPolicy(c.s, r.args.db, policy)
                 c1 == StoreCall(c, "CreateRetentionPolicy",
                                 <<r.args.db, policy.name>>, out)
             IN  IF out.err = ErrDatabaseNotFound
                 THEN error(c1, out.err, StatusNotFound)
                 ELSE IF out.err = ErrRetentionPolicyExists
                 THEN error(c1, out.err, StatusConflict)
                 ELSE IF out.err # Nil
                 THEN error(c1, out.err, StatusInternalServerError)
                 ELSE [c1 EXCEPT !.w = WriteHeader(@, StatusCreated)]

\* serveUpdateRetentionPolicy
serveUpdateRetentionPolicy(c, r, u) ==
    LET policy == DecodeRetentionPolicy(r.body)
    IN  IF policy.err # Nil THEN error(c, policy.err, StatusBadRequest)
        ELSE LET out == UpdateRetentionPolicy(c.s, r.args.db, r.args.name, policy)
                 c1 == StoreCall(c, "UpdateRetentionPolicy",
                                 <<r.args.db, r.args.name>>, out)
             IN  IF out.err = ErrDatabaseNotFound
                    \/ out.err = ErrRetentionPolicyNotFound
                 THEN error(c1, out.err, StatusNotFound)
                 ELSE IF out.err # Nil
                 THEN error(c1, out.err, StatusInternalServerError)
                 ELSE [c1 EXCEPT !.w = WriteHeader(@, StatusNoContent)]

\* serveDeleteRetentionPolicy
serveDeleteRetentionPolicy(c, r, u) ==
    LET out == DeleteRetentionPolicy(c.s, r.args.db, r.args.name)
        c1 == StoreCall(c, "DeleteRetentionPolicy",
                        <<r.args.db, r.args.name>>, out)
    IN  IF out.err = ErrDatabaseNotFound
           \/ out.err = ErrRetentionPolicyNotFound
        THEN error(c1, out.err, StatusNotFound)
        ELSE IF out.err # Nil
        THEN error(c1, out.err, StatusInternalServerError)
        ELSE [c1 EXCEPT !.w = WriteHeader(@, StatusNoContent)]

\* serveDataNodes
serveDataNodes(c, r, u) ==
    LET c1 == Traced(c, "DataNodes", <<>>, Nil)
        a == {[ID |-> n.id, URL |-> n.url] : n \in DataNodes(c.s)}
        w1 == HeaderAdd(c1.w, "Content-Type", "application/json")
    IN  [c1 EXCEPT !.w = EncodeJSON(w1, a)]

\* serveCreateDataNode, lines 510-531: the body is decoded, the url parsed
\* and the node created; ok when the reply is still to be written.
createDataNodeStored(c, r) ==
    LET n == DecodeDataNodeJSON(r.body)
        parsed == UrlParse(n.URL)
        out == CreateDataNode(c.s, parsed.url)
        c1 == StoreCall(c, "CreateDataNode", <<parsed.url>>, out)
    IN  IF n.err # Nil
        THEN [c |-> error(c, n.err, StatusBadRequest), ok |-> FALSE, url |-> ""]
        ELSE IF parsed.err
        THEN [c |-> error(c, "invalid data node url", StatusBadRequest),
              ok |-> FALSE, url |-> ""]
        ELSE IF out.err = ErrDataNodeExists
        THEN [c |-> error(c1, out.err, StatusConflict), ok |-> FALSE, url |-> ""]
        ELSE IF out.err # Nil
        THEN [c |-> error(c1, out.err, StatusInternalServerError),
              ok |-> FALSE, url |-> ""]
        ELSE [c |-> c1, ok |-> TRUE, url |-> parsed.url]

\* serveCreateDataNode, lines 533-538, after the step before (a.ok): the node
\* is read back by URL and written to the client; the status is written
\* before the content type is added, and a nil node is dereferenced after the
\* status is written.
createDataNodeReply(a) ==
    LET found == DataNodeByURL(a.c.s, a.url)
        c1 == Traced(a.c, "DataNodeByURL", <<a.url>>, BoolText(~found.nil))
        w1 == WriteHeader(c1.w, StatusCreated)
        w2 == HeaderAdd(w1, "Content-Type", "application/json")
    IN  IF ~a.ok THEN a.c
        ELSE IF found.nil
        THEN [c1 EXCEPT !.w = [w2 EXCEPT !.panicked = TRUE]]
        ELSE [c1 EXCEPT !.w =
                EncodeJSON(w2, [ID |-> found.node.id, URL |-> found.node.url])]

\* serveCreateDataNode
serveCreateDataNode(c, r, u) ==
    createDataNodeReply(createDataNodeStored(c, r))

\* serveDeleteDataNode with the error of ParseUint ignored: the store is asked
\* to delete the node of the id ParseUint left.
serveDeleteDataNodeUnparsed(c, r, u) ==
    LET nodeID == ParseUint(r.args.id)
        out == DeleteDataNode(c.s, nodeID.value)
        c1 == StoreCall(c, "DeleteDataNode", <<nodeID.value>>, out)
    IN  IF out.err = ErrDataNodeNotFound
        THEN error(c1, out.err, StatusNotFound)
        ELSE IF out.err # Nil
        THEN error(c1, out.err, StatusInternalServerError)
        ELSE [c1 EXCEPT !.w = WriteHeader(@, StatusNoContent)]

\* serveDeleteDataNode
serveDeleteDataNode(c, r, u) ==
    LET nodeID == ParseUint(r.args.id)
    IN  IF nodeID.err THEN error(c, "invalid node id", StatusBadRequest)
        ELSE LET out == DeleteDataNode(c.s, nodeID.value)
                 c1 == StoreCall(c, "DeleteDataNode", <<nodeID.value>>, out)
             IN  IF out.err = ErrDataNodeNotFound
                 THEN error(c1, out.err, StatusNotFound)
                 ELSE IF out.err # Nil
                 THEN error(c1, out.err, StatusInternalServerError)
                 ELSE [c1 EXCEPT !.w = WriteHeader(@, StatusNoContent)]

---------------------------------------------------------------------------
(* The authentication wrapper and the routing table *)

\* The call fn(w, r, user) of a wrapped handler, recorded with the identity
\* it is given.
CallHandler(fn, c, r, u) ==
    LET c1 == Traced(c, "handler", <<fn, u>>, Nil)
    IN  CASE fn = "serveUsers" -> serveUsers(c1, r, u)
          [] fn = "serveUpdateUser" -> serveUpdateUser(c1, r, u)
          [] fn = "serveDeleteUser" -> serveDeleteUser(c1, r, u)
          [] fn = "serveDatabases" -> serveDatabases(c1, r, u)
          [] fn = "serveCreateDatabase" -> serveCreateDatabase(c1, r, u)
          [] fn = "serveDeleteDatabase" -> serveDeleteDatabase(c1, r, u)
          [] fn = "serveQuery" -> serveQuery(c1, r, u)
          [] fn = "serveWriteSeries" -> serveWriteSeries(c1, r, u)
          [] fn = "serveShards" -> serveShards(c1, r, u)
          [] fn = "serveDeleteShard" -> serveDeleteShard(c1, r, u)
          [] fn = "serveRetentionPolicies" -> serveRetentionPolicies(c1, r, u)
          [] fn = "serveCreateRetentionPolicy" -> serveCreateRetentionPolicy(c1, r, u)
          [] fn = "serveUpdateRetentionPolicy" -> serveUpdateRetentionPolicy(c1, r, u)
          [] fn = "serveDeleteRetentionPolicy" -> serveDeleteRetentionPolicy(c1, r, u)
          [] fn = "serveDataNodes" -> serveDataNodes(c1, r, u)
          [] fn = "serveCreateDataNode" -> serveCreateDataNode(c1, r, u)
          [] fn = "serveDeleteDataNode" -> serveDeleteDataNode(c1, r, u)
          [] fn = "servePing" -> servePing(c1, r, u)

\* makeAuthenticationHandler(fn), line 145: fn is called when the
\* credential check a has written no 401.
authenticatedCall(fn, r, a) ==
    IF a.ok THEN CallHandler(fn, a.c, r, a.user) ELSE a.c

\* makeAuthenticationHandler without the returns of lines 136 and 141: fn is
\* called after a failed check too.
makeAuthenticationHandlerNoReturn(fn, c, r) ==
    IF AuthenticationEnabled
    THEN authenticatedCall(fn, r, [checkCredentials(c, r) EXCEPT !.ok = TRUE])
    ELSE CallHandler(fn, c, r, NilUser)

\* makeAuthenticationHandler with the check made whether or not
\* authentication is enabled.
makeAuthenticationHandlerAlways(fn, c, r) ==
    authenticatedCall(fn, r, checkCredentials(c, r))

\* makeAuthenticationHandler(fn): with authentication enabled the
\* credentials of the request must name a user of the store; fn is then
\* called with that user, and with a nil user when authentication is disabled.
makeAuthenticationHandler(fn, c, r) ==
    IF AuthenticationEnabled
    THEN authenticatedCall(fn, r, checkCredentials(c, r))
    ELSE CallHandler(fn, c, r, NilUser)

\* NewHandler: the routes in the order they are registered; auth is whether
\* the handler is wrapped by makeAuthenticationHandler.
Routes ==
    << [method |-> "GET", pat |-> "/authenticate", fn |-> "serveAuthenticate", auth |-> FALSE],
       [method |-> "GET", pat |-> "/users", fn |-> "serveUsers", auth |-> TRUE],
       [method |-> "POST", pat |-> "/users", fn |-> "serveCreateUser", auth |-> FALSE],
       [method |-> "PUT", pat |-> "/users/:user", fn |-> "serveUpdateUser", auth |-> TRUE],
       [method |-> "DELETE", pat |-> "/users/:user", fn |-> "serveDeleteUser", auth |-> TRUE],
       [method |-> "GET", pat |-> "/db", fn |-> "serveDatabases", auth |-> TRUE],
       [method |-> "POST", pat |-> "/db", fn |-> "serveCreateDatabase", auth |-> TRUE],
       [method |-> "DELETE", pat |-> "/db/:name", fn |-> "serveDeleteDatabase", auth |-> TRUE],
       [method |-> "GET", pat |-> "/db/:db/series", fn |-> "serveQuery", auth |-> TRUE],
       [method |-> "POST", pat |-> "/db/:db/series", fn |-> "serveWriteSeries", auth |-> TRUE],
       [method |-> "GET", pat |-> "/db/:db/shards", fn |-> "serveShards", auth |-> TRUE],
       [method |-> "DELETE", pat |-> "/db/:db/shards/:id", fn |-> "serveDeleteShard", auth |-> TRUE],
       [method |-> "GET", pat |-> "/db/:db/retention_policies", fn |-> "serveRetentionPolicies", auth |-> TRUE],
       [method |-> "POST", pat |-> "/db/:db/retention_policies", fn |-> "serveCreateRetentionPolicy", auth |-> TRUE],
       [method |-> "PUT", pat |-> "/db/:db/retention_policies/:name", fn |-> "serveUpdateRetentionPolicy", auth |-> TRUE],
       [method |-> "DELETE", pat |-> "/db/:db/retention_policies/:name", fn |-> "serveDeleteRetentionPolicy", auth |-> TRUE],
       [method |-> "GET", pat |-> "/data_nodes", fn |-> "serveDataNodes", auth |-> TRUE],
       [method |-> "POST", pat |-> "/data_nodes", fn |-> "serveCreateDataNode", auth |-> TRUE],
       [method |-> "DELETE", pat |-> "/data_nodes/:id", fn |-> "serveDeleteDataNode", auth |-> TRUE],
       [method |-> "GET", pat |-> "/ping", fn |-> "servePing", auth |-> TRUE] >>

\* The handler registered for a route: wrapped, or called as it is.
RouteHandler(rt, c, r) ==
    IF rt.auth THEN makeAuthenticationHandler(rt.fn, c, r)
    ELSE IF rt.fn = "serveCreateUser" THEN serveCreateUser(c, r)
    ELSE serveAuthenticate(c, r)

\* pat.PatternServeMux.ServeHTTP: the first route registered for the method
\* whose pattern the path matches; 405 when only other methods match, else 404.
\* A request names the pattern its path matches (r.pat) and carries the
\* pattern's parameters (r.args).
MuxServeHTTP(c, r) ==
    LET hits == {i \in 1..Len(Routes) :
                    Routes[i].method = r.method /\ Routes[i].pat = r.pat}
    IN  IF hits # {}
        THEN RouteHandler(Routes[CHOOSE i \in hits : \A j \in hits : i <= j], c, r)
        ELSE IF \E i \in 1..Len(Routes) : Routes[i].pat = r.pat
        THEN error(c, "Method Not Allowed", StatusMethodNotAllowed)
        ELSE error(c, "404 page not found", StatusNotFound)

\* Handler.ServeHTTP without the case of OPTIONS: every request goes to the
\* mux.
ServeHTTPNoOptions(c, r) ==
    LET w1 == HeaderAdd(c.w, "Access-Control-Allow-Origin", "*")
        w2 == HeaderAdd(w1, "Access-Control-Max-Age", "2592000")
        w3 == HeaderAdd(w2, "Access-Control-Allow-Methods", "GET, POST, PUT, DELETE")
        w4 == HeaderAdd(w3, "Access-Control-Allow-Headers",
                        "Origin, X-Requested-With, Content-Type, Accept")
        w5 == HeaderAdd(w4, "X-Influxdb-Version", "Version")
        c2 == MuxServeHTTP([c EXCEPT !.w = w5], r)
    IN  [c2 EXCEPT !.w = FinishResponse(@)]

\* Handler.ServeHTTP, and the 200 net/http sends for a silent handler.
ServeHTTP(c, r) ==
    LET w1 == HeaderAdd(c.w, "Access-Control-Allow-Origin", "*")
        w2 == HeaderAdd(w1, "Access-Control-Max-Age", "2592000")
        w3 == HeaderAdd(w2, "Access-Control-Allow-Methods", "GET, POST, PUT, DELETE")
        w4 == HeaderAdd(w3, "Access-Control-Allow-Headers",
                        "Origin, X-Requested-With, Content-Type, Accept")
        w5 == HeaderAdd(w4, "X-Influxdb-Version", "Version")
        c1 == [c EXCEPT !.w = w5]
        c2 == IF r.method = "OPTIONS"
              THEN [c1 EXCEPT !.w = WriteHeader(@, StatusOK)]
              ELSE MuxServeHTTP(c1, r)
    IN  [c2 EXCEPT !.w = FinishResponse(@)]

---------------------------------------------------------------------------
(* Requests *)

\* "Basic " followed by the Base64 text of user:pass
BasicHeader(user, pass) ==
    sBasic \o <<Space>> \o B64Encode(user \o <<Colon>> \o pass)

\* The Authorization headers the extractor rejects: one token; three tokens;
\* a second token that is not Base64 ("!!!!"); a decoded value without a
\* colon ("ap"); a decoded value of three fields ("a:p:q").
HeaderOneToken == sBasic
HeaderThreeTokens == BasicHeader(sA, sP) \o <<Space, 120>>
HeaderNotBase64 == sBasic \o <<Space, 33, 33, 33, 33>>
HeaderNoColon == sBasic \o <<Space>> \o B64Encode(sA \o sP)
HeaderThreeFields == BasicHeader(sA, sP \o <<Colon>> \o sQ)
MalformedHeaders ==
    {HeaderOneToken, HeaderThreeTokens, HeaderNotBase64, HeaderNoColon,
     HeaderThreeFields}

NoCredentials == [u |-> Empty, p |-> Empty, auth |-> Empty]

\* The credentials of the requests of most routes: none; a:p and b:p as a
\* Basic header.
BasicCredentials ==
    {NoCredentials,
     [u |-> Empty, p |-> Empty, auth |-> BasicHeader(sA, sP)],
     [u |-> Empty, p |-> Empty, auth |-> BasicHeader(sB, sP)]}

\* The credentials of the requests of the user routes: also a/p and a with
\* the wrong password q as query parameters, and each malformed header.
Credentials ==
    BasicCredentials
    \cup {[u |-> sA, p |-> sP, auth |-> Empty], [u |-> sA, p |-> sQ, auth |-> Empty]}
    \cup {[u |-> Empty, p |-> Empty, auth |-> h] : h \in MalformedHeaders}

NoArgs == [k \in {} |-> k]
NoBody == [ok |-> FALSE, fields |-> NoFields]
JSON(fields) == [ok |-> TRUE, fields |-> fields]

Request(method, pat, args, cred, q, body) ==
    [method |-> method, pat |-> pat, args |-> args,
     u |-> cred.u, p |-> cred.p, auth |-> cred.auth, q |-> q, body |-> body]

UserNames == {sA, sB}
DatabaseNames == {"metrics"}
PolicyNames == {"default"}
NodeURLs == {"http://h1:8086"}
NodeIDs == {<<49>>, <<50>>, <<97, 98, 99>>}
ShardIDs == {<<49>>}
Queries == {"select 1", "bad sql"}

\* Bodies of POST /users: malformed; every name, with or without the admin
\* flag; one without a password.
UserBodies ==
    {NoBody}
    \cup {JSON([name |-> n, password |-> sP, admin |-> a]) :
            n \in UserNames, a \in BOOLEAN}
    \cup {JSON([name |-> sA, admin |-> TRUE])}

\* Bodies of PUT /users/:user
PasswordBodies == {NoBody, JSON([password |-> sQ])}

\* Bodies of POST /db, of the retention policy routes and of POST /data_nodes:
\* malformed, complete, and without the required field.
DatabaseBodies ==
    {NoBody, JSON(NoFields)} \cup {JSON([name |-> n]) : n \in DatabaseNames}
PolicyBodies ==
    {NoBody, JSON(NoFields)} \cup {JSON([name |-> n]) : n \in PolicyNames}
DataNodeBodies ==
    {NoBody, JSON(NoFields)}
    \cup {JSON([url |-> x]) : x \in NodeURLs \cup {"%zz"}}

Min(a, b) == IF a < b THEN a ELSE b

\* Whether the trace holds a call of op that returned no error.
Succeeded(log, op) ==
    \E i \in 1..Len(log) : log[i].op = op /\ log[i].res = Nil

CreateOps ==
    {"CreateDatabase", "CreateUser", "CreateRetentionPolicy", "CreateDataNode"}
DeleteOps ==
    {"DeleteDatabase", "DeleteUser", "DeleteRetentionPolicy", "DeleteDataNode"}
UpdateOps == {"UpdateUser", "UpdateRetentionPolicy"}
MutatingOps == CreateOps \cup DeleteOps \cup UpdateOps

---------------------------------------------------------------------------
(* Sequential runs: one request is answered at a time *)

Idle == [phase |-> "idle"]
NoProcs == [i \in 1..NProcs |-> [pc |-> "idle"]]

Init ==
    /\ AuthenticationEnabled \in BOOLEAN
    /\ store = EmptyStore
    /\ last = Idle
    /\ prevBootstrap = FALSE
    /\ unauthCreates = 0
    /\ procs = NoProcs

\* The stores of the model: node ids up to MaxNodeID, and databases or data
\* nodes, not both.
Bounded(s) ==
    /\ s.nextID <= MaxNodeID + 1
    /\ s.dbs = {} \/ s.nextID = 1

\* Whether the request is POST /users for an admin user and carries no
\* credentials at all.
BareAdminCreate(r) ==
    /\ r.method = "POST" /\ r.pat = "/users"
    /\ r.body.ok /\ Field(r.body, "admin", FALSE)
    /\ r.u = Empty /\ r.p = Empty /\ r.auth = Empty

\* The context c that Handler.ServeHTTP left for request r, served for the
\* n-th time in a row, becomes the state.  The response and the trace stay in
\* last until the response has been sent; first is whether the first of two
\* attempts created its resource.
Answered(c, r, n, first) ==
    /\ Bounded(c.s)
    /\ store' = c.s
    /\ last' = [phase |-> "served", req |-> r, pre |-> store,
                w |-> c.w, log |-> c.log, attempt |-> n, first |-> first,
                afterBootstrap |-> prevBootstrap]
    /\ prevBootstrap' = (BareAdminCreate(r) /\ Succeeded(c.log, "CreateUser"))
    /\ unauthCreates' =
         IF /\ AuthenticationEnabled
            /\ Succeeded(c.log, "CreateUser")
            /\ ~Succeeded(c.log, "AuthenticatedUser")
         THEN Min(unauthCreates + 1, MaxUnauth)
         ELSE unauthCreates
    /\ UNCHANGED <<AuthenticationEnabled, procs>>

\* No request is being answered.
Listening == last.phase = "idle"

\* Request r arrives and is answered.
Handle(r) == Answered(ServeHTTP(NewContext(store), r), r, 1, FALSE)

\* The client repeats the create request it has just sent.
Retry ==
    /\ last.phase = "served"
    /\ last.attempt = 1
    /\ last.req.method = "POST"
    /\ Answered(ServeHTTP(NewContext(store), last.req), last.req, 2,
                \E op \in CreateOps : Succeeded(last.log, op))

\* The response has been sent.
Complete ==
    /\ last.phase = "served"
    /\ last' = Idle
    /\ UNCHANGED <<AuthenticationEnabled, store, prevBootstrap, unauthCreates, procs>>

\* The requests of each route: its credentials with every parameter and body.
Requests ==
    [ Options |->
          {Request("OPTIONS", pat, NoArgs, cred, "", NoBody) :
              pat \in {"/users", "/nowhere"},
              cred \in {NoCredentials,
                        [u |-> Empty, p |-> Empty, auth |-> BasicHeader(sA, sP)],
                        [u |-> Empty, p |-> Empty, auth |-> HeaderNotBase64]}},
      Unrouted |->
          {Request("PUT", "/db", NoArgs, NoCredentials, "", NoBody),
           Request("GET", "/nowhere", NoArgs, NoCredentials, "", NoBody)},
      GetAuthenticate |->
          {Request("GET", "/authenticate", NoArgs, cred, "", NoBody) : cred \in BasicCredentials},
      GetUsers |->
          {Request("GET", "/users", NoArgs, cred, "", NoBody) : cred \in Credentials},
      PostUsers |->
          {Request("POST", "/users", NoArgs, cred, "", body) :
              cred \in Credentials, body \in UserBodies},
      PutUser |->
          {Request("PUT", "/users/:user", [user |-> n], cred, "", body) :
              cred \in BasicCredentials, n \in UserNames, body \in PasswordBodies},
      DeleteUser |->
          {Request("DELETE", "/users/:user", [user |-> n], cred, "", NoBody) :
              cred \in Credentials, n \in UserNames},
      GetDatabases |->
          {Request("GET", "/db", NoArgs, cred, "", NoBody) : cred \in BasicCredentials},
      PostDatabase |->
          {Request("POST", "/db", NoArgs, cred, "", body) :
              cred \in BasicCredentials, body \in DatabaseBodies},
      DeleteDatabase |->
          {Request("DELETE", "/db/:name", [name |-> n], cred, "", NoBody) :
              cred \in BasicCredentials, n \in DatabaseNames},
      GetSeries |->
          {Request("GET", "/db/:db/series", [db |-> n], cred, q, NoBody) :
              cred \in BasicCredentials, n \in DatabaseNames, q \in Queries},
      PostSeries |->
          {Request("POST", "/db/:db/series", [db |-> n], cred, "", NoBody) :
              cred \in BasicCredentials, n \in DatabaseNames},
      GetShards |->
          {Request("GET", "/db/:db/shards", [db |-> n], cred, "", NoBody) :
              cred \in BasicCredentials, n \in DatabaseNames},
      DeleteShard |->
          {Request("DELETE", "/db/:db/shards/:id", [db |-> n, id |-> id], cred, "", NoBody) :
              cred \in BasicCredentials, n \in DatabaseNames, id \in ShardIDs},
      GetRetentionPolicies |->
          {Request("GET", "/db/:db/retention_policies", [db |-> n], cred, "", NoBody) :
              cred \in BasicCredentials, n \in DatabaseNames},
      PostRetentionPolicy |->
          {Request("POST", "/db/:db/retention_policies", [db |-> n], cred, "", body) :
              cred \in BasicCredentials, n \in DatabaseNames, body \in PolicyBodies},
      PutRetentionPolicy |->
          {Request("PUT", "/db/:db/retention_policies/:name", [db |-> n, name |-> pn],
                   cred, "", body) :
              cred \in BasicCredentials, n \in DatabaseNames, pn \in PolicyNames,
              body \in PolicyBodies},
      DeleteRetentionPolicy |->
          {Request("DELETE", "/db/:db/retention_policies/:name", [db |-> n, name |-> pn],
                   cred, "", NoBody) :
              cred \in BasicCredentials, n \in DatabaseNames, pn \in PolicyNames},
      GetDataNodes |->
          {Request("GET", "/data_nodes", NoArgs, cred, "", NoBody) : cred \in BasicCredentials},
      PostDataNode |->
          {Request("POST", "/data_nodes", NoArgs, cred, "", body) :
              cred \in BasicCredentials, body \in DataNodeBodies},
      DeleteDataNode |->
          {Request("DELETE", "/data_nodes/:id", [id |-> id], cred, "", NoBody) :
              cred \in BasicCredentials, id \in NodeIDs},
      GetPing |->
          {Request("GET", "/ping", NoArgs, NoCredentials, "", NoBody)} ]

\* One action per route.
Options == Listening /\ \E r \in Requests.Options : Handle(r)
Unrouted == Listening /\ \E r \in Requests.Unrouted : Handle(r)
GetAuthenticate == Listening /\ \E r \in Requests.GetAuthenticate : Handle(r)
GetUsers == Listening /\ \E r \in Requests.GetUsers : Handle(r)
PostUsers == Listening /\ \E r \in Requests.PostUsers : Handle(r)
PutUser == Listening /\ \E r \in Requests.PutUser : Handle(r)
DeleteUserRoute == Listening /\ \E r \in Requests.DeleteUser : Handle(r)
GetDatabases == Listening /\ \E r \in Requests.GetDatabases : Handle(r)
PostDatabase == Listening /\ \E r \in Requests.PostDatabase : Handle(r)
DeleteDatabaseRoute == Listening /\ \E r \in Requests.DeleteDatabase : Handle(r)
GetSeries == Listening /\ \E r \in Requests.GetSeries : Handle(r)
PostSeries == Listening /\ \E r \in Requests.PostSeries : Handle(r)
GetShards == Listening /\ \E r \in Requests.GetShards : Handle(r)
DeleteShardRoute == Listening /\ \E r \in Requests.DeleteShard : Handle(r)
GetRetentionPolicies == Listening /\ \E r \in Requests.GetRetentionPolicies : Handle(r)
PostRetentionPolicy == Listening /\ \E r \in Requests.PostRetentionPolicy : Handle(r)
PutRetentionPolicy == Listening /\ \E r \in Requests.PutRetentionPolicy : Handle(r)
DeleteRetentionPolicyRoute == Listening /\ \E r \in Requests.DeleteRetentionPolicy : Handle(r)
GetDataNodes == Listening /\ \E r \in Requests.GetDataNodes : Handle(r)
PostDataNode == Listening /\ \E r \in Requests.PostDataNode : Handle(r)
DeleteDataNodeRoute == Listening /\ \E r \in Requests.DeleteDataNode : Handle(r)
GetPing == Listening /\ \E r \in Requests.GetPing : Handle(r)

Next ==
    \/ Options
    \/ Unrouted
    \/ GetAuthenticate
    \/ GetUsers
    \/ PostUsers
    \/ PutUser
    \/ DeleteUserRoute
    \/ GetDatabases
    \/ PostDatabase
    \/ DeleteDatabaseRoute
    \/ GetSeries
    \/ PostSeries
    \/ GetShards
    \/ DeleteShardRoute
    \/ GetRetentionPolicies
    \/ PostRetentionPolicy
    \/ PutRetentionPolicy
    \/ DeleteRetentionPolicyRoute
    \/ GetDataNodes
    \/ PostDataNode
    \/ DeleteDataNodeRoute
    \/ GetPing
    \/ Retry
    \/ Complete

Spec == Init /\ [][Next]_vars

---------------------------------------------------------------------------
(* Concurrent requests: net/http serves every request on a goroutine of     *)
(* its own.  Each call of the store is atomic; the steps of a handler      *)
(* between two calls are not.                                              *)

ConcurrentRequests ==
    {Request("POST", "/users", NoArgs, cred, "", body) :
        cred \in {NoCredentials,
                  [u |-> Empty, p |-> Empty, auth |-> BasicHeader(sA, sP)]},
        body \in {JSON([name |-> n, password |-> sP, admin |-> a]) :
                    n \in UserNames, a \in BOOLEAN}}

\* The context of goroutine i, on the store as it is now.
ProcContext(i) == [w |-> procs[i].w, s |-> store, log |-> procs[i].log]

\* Goroutine i has come to pc with context c; a finished response is sent.
ProcAt(i, r, pc, c) ==
    [procs EXCEPT ![i] = [pc |-> pc, req |-> r,
                          w |-> IF pc = "done" THEN FinishResponse(c.w) ELSE c.w,
                          log |-> c.log]]

\* serveCreateUser, lines 322-331: a request arrives at goroutine i; its body
\* is decoded and the store is asked whether an admin exists.
BeginCreateUser(i) ==
    /\ procs[i].pc = "idle"
    /\ \E r \in ConcurrentRequests :
        LET newUser == DecodeUserJSON(r.body)
            chk == createUserCheck(NewContext(store), newUser)
        IN  procs' =
                IF newUser.err # Nil
                THEN ProcAt(i, r, "done",
                            error(NewContext(store), newUser.err, StatusBadRequest))
                ELSE ProcAt(i, r, IF chk.need THEN "authenticate" ELSE "create", chk.c)
    /\ UNCHANGED <<AuthenticationEnabled, store, last, prevBootstrap, unauthCreates>>

\* Goroutine i has made the credential check, which left a.
CreateUserAuthenticated(i, a) ==
    procs' = ProcAt(i, procs[i].req, IF a.ok THEN "create" ELSE "done", a.c)

\* serveCreateUser, lines 332-342, at goroutine i
AuthenticateCreateUser(i) ==
    /\ procs[i].pc = "authenticate"
    /\ CreateUserAuthenticated(i, checkCredentials(ProcContext(i), procs[i].req))
    /\ UNCHANGED <<AuthenticationEnabled, store, last, prevBootstrap, unauthCreates>>

\* Goroutine i has called CreateUser, which left c.
CreateUserStored(i, c) ==
    /\ procs' = ProcAt(i, procs[i].req, "done", c)
    /\ store' = c.s
    /\ unauthCreates' =
         IF /\ AuthenticationEnabled
            /\ Succeeded(c.log, "CreateUser")
            /\ ~Succeeded(c.log, "AuthenticatedUser")
         THEN Min(unauthCreates + 1, MaxUnauth)
         ELSE unauthCreates

\* serveCreateUser, lines 345-352, at goroutine i
StoreCreateUser(i) ==
    /\ procs[i].pc = "create"
    /\ CreateUserStored(i,
          createUserChecked([c |-> ProcContext(i), ok |-> TRUE, user |-> NilUser],
                            DecodeUserJSON(procs[i].req.body)))
    /\ UNCHANGED <<AuthenticationEnabled, last, prevBootstrap>>

\* Concurrent data node requests: a create and the delete of the node with
\* the first id the store assigns, each with the credentials of user a.
ConcurrentNodeRequests ==
    {Request("POST", "/data_nodes", NoArgs,
             [u |-> Empty, p |-> Empty, auth |-> BasicHeader(sA, sP)], "",
             JSON([url |-> "http://h1:8086"])),
     Request("DELETE", "/data_nodes/:id", [id |-> <<49>>],
             [u |-> Empty, p |-> Empty, auth |-> BasicHeader(sA, sP)], "", NoBody)}

\* makeAuthenticationHandler, lines 132-144: the credential check when
\* authentication is enabled.
gateCheck(c, r) ==
    IF AuthenticationEnabled THEN checkCredentials(c, r)
    ELSE [c |-> c, ok |-> TRUE, user |-> NilUser]

\* Goroutine i has come to pc with context c, whose store is now the store.
DataNodeStep(i, r, pc, c) ==
    /\ c.s.nextID <= MaxNodeID + 1
    /\ procs' = ProcAt(i, r, pc, c)
    /\ store' = c.s

\* Goroutine i has called CreateDataNode, which left a.
NodeStored(i, r, a) == DataNodeStep(i, r, IF a.ok THEN "reply" ELSE "done", a.c)

\* Goroutine i has made the credential check, which left g: a delete is
\* served whole (one call of the store), a create up to its CreateDataNode.
DataNodeGated(i, r, g) ==
    IF ~g.ok THEN DataNodeStep(i, r, "done", g.c)
    ELSE IF r.method = "DELETE"
    THEN DataNodeStep(i, r, "done", serveDeleteDataNode(g.c, r, g.user))
    ELSE NodeStored(i, r, createDataNodeStored(g.c, r))

\* A data node request arrives at goroutine i.
BeginDataNode(i) ==
    /\ procs[i].pc = "idle"
    /\ \E r \in ConcurrentNodeRequests :
          DataNodeGated(i, r, gateCheck(NewContext(store), r))
    /\ UNCHANGED <<AuthenticationEnabled, last, prevBootstrap, unauthCreates>>

\* serveCreateDataNode, lines 533-538, at goroutine i: the node is read back
\* from the store as it is now.
ReplyCreateDataNode(i) ==
    /\ procs[i].pc = "reply"
    /\ procs' = ProcAt(i, procs[i].req, "done",
                       createDataNodeReply(
                           [c |-> ProcContext(i), ok |-> TRUE,
                            url |-> Field(procs[i].req.body, "url", "")]))
    /\ UNCHANGED <<AuthenticationEnabled, store, last, prevBootstrap, unauthCreates>>

NextConc ==
    \E i \in 1..NProcs :
        \/ BeginCreateUser(i)
        \/ AuthenticateCreateUser(i)
        \/ StoreCreateUser(i)
        \/ BeginDataNode(i)
        \/ ReplyCreateDataNode(i)

SpecConc == Init /\ [][NextConc]_vars

---------------------------------------------------------------------------
(* The extractor on the Basic headers of every user name and password of   *)
(* up to MaxLen bytes over 'a', 'p' and ':'.                               *)

CredentialStrings == UNION {[1..n -> {97, 112, Colon}] : n \in 0..MaxLen}

InitExtract ==
    /\ AuthenticationEnabled = TRUE
    /\ store = EmptyStore
    /\ last \in {[phase |-> "header", username |-> u, password |-> p] :
                    u \in CredentialStrings, p \in CredentialStrings}
    /\ prevBootstrap = FALSE
    /\ unauthCreates = 0
    /\ procs = NoProcs

\* A request without u and p whose Authorization header is built from the
\* user name and the password goes through getUsernameAndPassword.
Extract ==
    /\ last.phase = "header"
    /\ last' = [phase |-> "extracted",
                username |-> last.username,
                password |-> last.password,
                res |-> getUsernameAndPassword(
                            Request("GET", "/ping", NoArgs,
                                    [u |-> Empty, p |-> Empty,
                                     auth |-> BasicHeader(last.username,
                                                          last.password)],
                                    "", NoBody))]
    /\ UNCHANGED <<AuthenticationEnabled, store, prevBootstrap, unauthCreates, procs>>

SpecExtract == InitExtract /\ [][Extract]_vars

---------------------------------------------------------------------------
(* Properties.  A request that has been answered is described by last:     *)
(* the request, the store before it, the response and the trace of calls.  *)

Served == last.phase = "served"

\* Whether the request's route is wrapped by makeAuthenticationHandler.
GatedRoute(r) ==
    \E i \in 1..Len(Routes) :
        Routes[i].method = r.method /\ Routes[i].pat = r.pat /\ Routes[i].auth

IsCreateUser(r) == r.method = "POST" /\ r.pat = "/users"

\* The calls of wrapped handlers in a trace.
HandlerCalls(log) == {i \in 1..Len(log) : log[i].op = "handler"}

\* The calls of op in a trace.
Calls(log, op) == {i \in 1..Len(log) : log[i].op = op}

\* Whether the credentials of r name a user of store s with his password.
ValidCredentials(s, r) ==
    LET cred == getUsernameAndPassword(r)
    IN  /\ cred.err = Nil
        /\ AuthenticatedUser(s, cred.username, cred.password).err = Nil

\* No credential check of the request failed.
Admitted(log) ==
    \A i \in 1..Len(log) :
        log[i].op \in {"getUsernameAndPassword", "AuthenticatedUser"}
            => log[i].res = Nil

\* Whether any text of the response body is msg.
BodySays(w, msg) == \E i \in 1..Len(w.body) : w.body[i].text = msg

\* C1: with authentication enabled, a mutating store operation is called for
\* a request only after, in the same request, the authenticator accepted the
\* request's credentials or the create-user check found no admin user for an
\* admin user to be created.
MutationOnlyAfterGate ==
    (Served /\ AuthenticationEnabled) =>
        \A i \in 1..Len(last.log) :
            last.log[i].op \in MutatingOps =>
                \E j \in 1..(i - 1) :
                    \/ /\ last.log[j].op = "AuthenticatedUser"
                       /\ last.log[j].res = Nil
                       /\ LET cred == getUsernameAndPassword(last.req)
                          IN  last.log[j].arg = <<cred.username, cred.password>>
                    \/ /\ last.log[j].op = "AdminUserExists"
                       /\ last.log[j].res = "false"
                       /\ IsCreateUser(last.req)
                       /\ Field(last.req.body, "admin", FALSE)

\* A database is deleted for a request whose credentials were accepted.
MutationAfterGateReached ==
    /\ Served /\ AuthenticationEnabled
    /\ Succeeded(last.log, "AuthenticatedUser")
    /\ Succeeded(last.log, "DeleteDatabase")

\* C2: with authentication enabled, a wrapped handler is called exactly when
\* the extractor returns no error and the authenticator accepts the pair, and
\* then once, with the user the authenticator resolved; otherwise the answer
\* is 401 and the handler is not called, as it is for a request without
\* credentials and for every malformed Authorization header.
GateCallsHandlerIffAccepted ==
    (Served /\ AuthenticationEnabled /\ GatedRoute(last.req)) =>
        LET cred == getUsernameAndPassword(last.req)
            calls == HandlerCalls(last.log)
        IN  /\ (calls # {}) <=> ValidCredentials(last.pre, last.req)
            /\ calls # {} =>
                /\ Cardinality(calls) = 1
                /\ \A i \in calls :
                    last.log[i].arg[2] = UserOf(last.pre, cred.username)
            /\ calls = {} => last.w.status = StatusUnauthorized
            /\ (last.req.u = Empty /\ last.req.p = Empty
                    /\ last.req.auth \in MalformedHeaders \cup {Empty})
                => (calls = {} /\ last.w.status = StatusUnauthorized)

\* A header whose decoded value has three fields is refused although its
\* first two fields are the name and the password of a user.
MalformedHeaderRefused ==
    /\ Served /\ AuthenticationEnabled /\ GatedRoute(last.req)
    /\ last.req.auth = HeaderThreeFields
    /\ sA \in DOMAIN last.pre.users
    /\ last.w.status = StatusUnauthorized

\* C3: with authentication disabled, a request to a wrapped route reaches its
\* handler once, with a nil user, and neither the extractor nor the
\* authenticator is called.
DisabledGateCallsHandler ==
    (Served /\ ~AuthenticationEnabled /\ GatedRoute(last.req)) =>
        /\ Cardinality(HandlerCalls(last.log)) = 1
        /\ \A i \in HandlerCalls(last.log) : last.log[i].arg[2] = NilUser
        /\ Calls(last.log, "getUsernameAndPassword") = {}
        /\ Calls(last.log, "AuthenticatedUser") = {}

\* With authentication disabled a request with a malformed header reaches
\* its handler, which deletes a user.
DisabledGateReached ==
    /\ Served /\ ~AuthenticationEnabled /\ GatedRoute(last.req)
    /\ last.req.auth \in MalformedHeaders
    /\ Succeeded(last.log, "DeleteUser")

\* The credential check of create-user was not made.
CheckSkipped == Calls(last.log, "getUsernameAndPassword") = {}

\* With authentication enabled, create-user checks the credentials when an
\* admin exists or the new user is no admin; CreateUser is then called only
\* after the authenticator accepted them, and otherwise the answer is 401.
CreateUserAfterCheck ==
    (AuthenticationEnabled /\
       (AdminUserExists(last.pre) \/ ~Field(last.req.body, "admin", FALSE))) =>
        IF ValidCredentials(last.pre, last.req)
        THEN \E i \in Calls(last.log, "CreateUser") :
                \E j \in 1..(i - 1) :
                    last.log[j].op = "AuthenticatedUser" /\ last.log[j].res = Nil
        ELSE /\ last.w.status = StatusUnauthorized
             /\ Calls(last.log, "CreateUser") = {}

\* C4, as stated: for create-user with a decodable body the credential check
\* is skipped exactly when authentication is enabled, no admin exists and
\* the new user is an admin.
SkippedIffBootstrap ==
    (Served /\ IsCreateUser(last.req) /\ last.req.body.ok) =>
        /\ CheckSkipped <=>
              /\ AuthenticationEnabled
              /\ ~AdminUserExists(last.pre)
              /\ Field(last.req.body, "admin", FALSE)
        /\ CreateUserAfterCheck

\* C4, amended: with authentication disabled the check is never made; with
\* authentication enabled it is skipped exactly when no admin exists and the
\* new user is an admin.
SkippedIffBootstrapOrDisabled ==
    (Served /\ IsCreateUser(last.req) /\ last.req.body.ok) =>
        /\ ~AuthenticationEnabled =>
              (CheckSkipped /\ Calls(last.log, "CreateUser") # {})
        /\ AuthenticationEnabled =>
              (CheckSkipped <=>
                  /\ ~AdminUserExists(last.pre)
                  /\ Field(last.req.body, "admin", FALSE))
        /\ CreateUserAfterCheck

\* An admin exists and a request without credentials to create another admin
\* is answered 401.
SecondAdminRefused ==
    /\ Served /\ AuthenticationEnabled /\ IsCreateUser(last.req)
    /\ AdminUserExists(last.pre)
    /\ Field(last.req.body, "admin", FALSE)
    /\ ~ValidCredentials(last.pre, last.req)
    /\ ~CheckSkipped
    /\ last.w.status = StatusUnauthorized

\* The request created the admin user its body names.
AdminCreated ==
    LET name == Field(last.req.body, "name", Empty)
    IN  /\ last.w.status = StatusOK
        /\ name \notin DOMAIN last.pre.users
        /\ name \in DOMAIN store.users
        /\ store.users[name].admin

\* A request without credentials to create an admin, right after one that
\* succeeded, is answered 401 and creates no user.
SecondBootstrapRefused ==
    (Served /\ AuthenticationEnabled /\ last.afterBootstrap
        /\ BareAdminCreate(last.req)) =>
        /\ last.w.status = StatusUnauthorized
        /\ store = last.pre

\* C5, as stated: with authentication enabled and no admin in the store, a
\* request without credentials to create an admin succeeds, and a second
\* such request after it is answered 401 and creates no user.
BootstrapThenRefused ==
    /\ (Served /\ AuthenticationEnabled /\ ~AdminUserExists(last.pre)
            /\ BareAdminCreate(last.req))
        => AdminCreated
    /\ SecondBootstrapRefused

\* C5, amended: the first request succeeds when the name of its user is not
\* taken (by a user who is no admin).
BootstrapOfNewNameThenRefused ==
    /\ (Served /\ AuthenticationEnabled /\ ~AdminUserExists(last.pre)
            /\ BareAdminCreate(last.req))
        => IF Field(last.req.body, "name", Empty) \in DOMAIN last.pre.users
           THEN last.w.status = StatusConflict /\ store = last.pre
           ELSE AdminCreated
    /\ SecondBootstrapRefused

\* The second of two requests without credentials to create an admin has
\* been answered 401.
SecondBootstrapReached ==
    /\ Served /\ AuthenticationEnabled /\ last.afterBootstrap
    /\ BareAdminCreate(last.req)
    /\ last.attempt = 1
    /\ last.w.status = StatusUnauthorized

\* The goroutines whose request created a user although the authenticator
\* accepted no credentials for it.
UnauthenticatedCreators ==
    {i \in 1..NProcs :
        /\ procs[i].pc = "done"
        /\ Succeeded(procs[i].log, "CreateUser")
        /\ ~Succeeded(procs[i].log, "AuthenticatedUser")}

\* C6: with authentication enabled, among concurrent create-user requests at
\* most one creates a user without credentials the authenticator accepted.
OneUnauthenticatedCreator ==
    AuthenticationEnabled => Cardinality(UnauthenticatedCreators) <= 1

\* C7, as stated: with authentication enabled at most one create-user
\* request ever succeeds without credentials the authenticator accepted.
BootstrapOnce == unauthCreates <= 1

\* C7, amended: with authentication enabled a create-user request succeeds
\* without credentials the authenticator accepted only when the store holds
\* no admin, and the user it creates is an admin.
BootstrapOnlyWithoutAdmin ==
    (Served /\ AuthenticationEnabled /\ IsCreateUser(last.req)
        /\ Succeeded(last.log, "CreateUser")
        /\ ~Succeeded(last.log, "AuthenticatedUser")) =>
        /\ ~AdminUserExists(last.pre)
        /\ AdminUserExists(store)
        /\ Cardinality(DOMAIN store.users) = Cardinality(DOMAIN last.pre.users) + 1

\* After the admin was deleted, a second request without credentials has
\* created an admin.
BootstrapAgainReached ==
    /\ Served /\ AuthenticationEnabled /\ IsCreateUser(last.req)
    /\ unauthCreates = 2
    /\ Succeeded(last.log, "CreateUser")
    /\ ~Succeeded(last.log, "AuthenticatedUser")
    /\ ~AdminUserExists(last.pre)

IsDelete(r) == r.method = "DELETE" /\ GatedRoute(r)

\* Whether the instance a delete request names is not in store s.  The store
\* holds no shard.
Missing(s, r) ==
    CASE r.pat = "/users/:user" -> r.args.user \notin DOMAIN s.users
      [] r.pat = "/db/:name" -> r.args.name \notin s.dbs
      [] r.pat = "/db/:db/shards/:id" -> TRUE
      [] r.pat = "/db/:db/retention_policies/:name" ->
            [db |-> r.args.db, name |-> r.args.name] \notin s.rps
      [] r.pat = "/data_nodes/:id" ->
            /\ ~ParseUint(r.args.id).err
            /\ \A n \in s.nodes : n.id # ParseUint(r.args.id).value

\* C8: a delete request that passes the gate and names an instance the store
\* does not hold is answered 404.
DeleteOfMissingIsNotFound ==
    (Served /\ IsDelete(last.req) /\ HandlerCalls(last.log) # {}
        /\ Missing(last.pre, last.req))
        => last.w.status = StatusNotFound

IsCreate(r) ==
    /\ r.method = "POST"
    /\ r.pat \in {"/users", "/db", "/db/:db/retention_policies", "/data_nodes"}

\* Whether the instance a create request names is in store s.
Present(s, r) ==
    /\ r.body.ok
    /\ CASE r.pat = "/users" -> Field(r.body, "name", Empty) \in DOMAIN s.users
         [] r.pat = "/db" -> Field(r.body, "name", "") \in s.dbs
         [] r.pat = "/db/:db/retention_policies" ->
               [db |-> r.args.db, name |-> Field(r.body, "name", "")] \in s.rps
         [] r.pat = "/data_nodes" ->
               \E n \in s.nodes : n.url = Field(r.body, "url", "")

\* POST /db for "metrics" on a store without it is answered 201 with an empty
\* body; its repeat is answered 409 with the text "database exists".
MetricsScenario ==
    (Served /\ last.req.method = "POST" /\ last.req.pat = "/db"
        /\ last.req.body.ok /\ Field(last.req.body, "name", "") = "metrics"
        /\ (AuthenticationEnabled => ValidCredentials(last.pre, last.req))) =>
        /\ (last.attempt = 1 /\ "metrics" \notin last.pre.dbs) =>
              (last.w.status = StatusCreated /\ last.w.body = <<>>
                /\ "metrics" \in store.dbs)
        /\ (last.attempt = 2 /\ last.first) =>
              (last.w.status = StatusConflict /\ BodySays(last.w, "database exists"))

\* C9, as stated: the repeat of a create request that succeeded is answered
\* 409 and leaves the store unchanged.
RepeatedCreateConflicts ==
    /\ (Served /\ IsCreate(last.req) /\ last.attempt = 2 /\ last.first) =>
          (last.w.status = StatusConflict /\ store = last.pre)
    /\ MetricsScenario

\* C9, amended: the repeat is answered 409 when no credential check refuses
\* it, as is every create request for an instance the store holds; a repeat
\* that is refused is answered 401.  The store is unchanged in each case.
AdmittedRepeatConflicts ==
    /\ (Served /\ IsCreate(last.req) /\ last.attempt = 2 /\ last.first) =>
          /\ Present(last.pre, last.req)
          /\ store = last.pre
          /\ IF Admitted(last.log)
             THEN last.w.status = StatusConflict
             ELSE last.w.status = StatusUnauthorized /\ IsCreateUser(last.req)
    /\ (Served /\ IsCreate(last.req) /\ Admitted(last.log)
            /\ Present(last.pre, last.req)) =>
          (last.w.status = StatusConflict /\ store = last.pre)
    /\ MetricsScenario

\* The repeat of a create-user request has been answered 409.
RepeatConflictReached ==
    /\ Served /\ IsCreateUser(last.req) /\ AuthenticationEnabled
    /\ last.attempt = 2 /\ last.first
    /\ last.w.status = StatusConflict
    /\ BodySays(last.w, ErrUserExists)

\* Whether the body of a create request lacks a required field, or carries
\* an empty or an invalid value for it.
InvalidBody(r) ==
    \/ ~r.body.ok
    \/ CASE r.pat = "/users" ->
              \/ Field(r.body, "name", Empty) = Empty
              \/ Field(r.body, "password", Empty) = Empty
              \/ "admin" \notin DOMAIN r.body.fields
         [] r.pat = "/db" -> Field(r.body, "name", "") = ""
         [] r.pat = "/db/:db/retention_policies" -> Field(r.body, "name", "") = ""
         [] r.pat = "/data_nodes" -> Field(r.body, "url", "") \notin NodeURLs

\* C10: a create request that passes the gate with an invalid body is
\* answered 400, and the store's create operation is not called.
InvalidCreateIsBadRequest ==
    (Served /\ IsCreate(last.req) /\ Admitted(last.log)
        /\ (GatedRoute(last.req) => HandlerCalls(last.log) # {})
        /\ InvalidBody(last.req)) =>
        /\ last.w.status = StatusBadRequest
        /\ \A op \in CreateOps : Calls(last.log, op) = {}

\* The operations of the store other than the authenticator.
StoreOps ==
    MutatingOps \cup {"AdminUserExists", "Users", "Databases", "Shards",
                      "RetentionPolicies", "DataNodes", "DataNodeByURL"}

\* Whether the input the route's handler parses is malformed: the JSON body
\* of a create or an update, the id of a data node, the query of a series
\* read.
ParseFails(r) ==
    \/ /\ r.method \in {"POST", "PUT"}
       /\ r.pat \in {"/users", "/users/:user", "/db",
                     "/db/:db/retention_policies",
                     "/db/:db/retention_policies/:name", "/data_nodes"}
       /\ \E i \in 1..Len(Routes) :
             Routes[i].method = r.method /\ Routes[i].pat = r.pat
       /\ ~r.body.ok
    \/ /\ r.method = "DELETE" /\ r.pat = "/data_nodes/:id"
       /\ ParseUint(r.args.id).err
    \/ /\ r.method = "GET" /\ r.pat = "/db/:db/series"
       /\ r.q \in MalformedQueries

\* A request with malformed input is answered 400 without a call of the
\* store, and a malformed node id with the text "invalid node id".
BadRequestBeforeStore ==
    /\ last.w.status = StatusBadRequest
    /\ \A op \in StoreOps : Calls(last.log, op) = {}
    /\ (last.req.pat = "/data_nodes/:id") => BodySays(last.w, "invalid node id")

\* C11, as stated: every request whose input fails to parse is answered 400
\* and no operation of the store is called for it; a DELETE /data_nodes/:id
\* with a non-numeric id is answered 400 "invalid node id".
ParseFailureIsBadRequest ==
    (Served /\ ParseFails(last.req)) => BadRequestBeforeStore

\* C11, amended: a request whose input fails to parse and which the gate does
\* not refuse is answered 400 and no operation of the store is called for it;
\* one the gate refuses is answered 401, its handler not called.
AdmittedParseFailureIsBadRequest ==
    (Served /\ ParseFails(last.req)) =>
        IF GatedRoute(last.req) /\ HandlerCalls(last.log) = {}
        THEN /\ AuthenticationEnabled
             /\ last.w.status = StatusUnauthorized
             /\ \A op \in StoreOps : Calls(last.log, op) = {}
        ELSE BadRequestBeforeStore

\* With authentication enabled, the delete of data node "abc" by a user of
\* the store is answered 400 "invalid node id".
InvalidNodeIDReached ==
    /\ Served /\ AuthenticationEnabled
    /\ last.req.method = "DELETE" /\ last.req.pat = "/data_nodes/:id"
    /\ last.req.args.id = <<97, 98, 99>>
    /\ HandlerCalls(last.log) # {}
    /\ last.w.status = StatusBadRequest
    /\ BodySays(last.w, "invalid node id")

\* The operations of the store that read a list.
ReadOps == {"Users", "Databases", "Shards", "RetentionPolicies", "DataNodes"}

\* C12: a request that passes the gate and whose store operation succeeds is
\* answered 201 when it creates, 204 when it deletes or updates (the delete
\* of a shard included), and 200 when it reads.
SuccessStatusOfClass ==
    (Served /\ Admitted(last.log)
        /\ (GatedRoute(last.req) => HandlerCalls(last.log) # {})) =>
        /\ (\E op \in CreateOps : Succeeded(last.log, op))
              => last.w.status = StatusCreated
        /\ (\E op \in DeleteOps \cup UpdateOps : Succeeded(last.log, op))
              => last.w.status = StatusNoContent
        /\ (last.req.method = "DELETE" /\ last.req.pat = "/db/:db/shards/:id")
              => last.w.status = StatusNoContent
        /\ (\E op \in ReadOps : Succeeded(last.log, op))
              => last.w.status = StatusOK

\* Whether the request reads a list: users, databases, data nodes, the
\* retention policies or the shards of a database.
IsList(r) ==
    /\ r.method = "GET"
    /\ r.pat \in {"/users", "/db", "/data_nodes",
                  "/db/:db/retention_policies", "/db/:db/shards"}

\* Whether the list is that of a database the store does not hold.
OfMissingDatabase(s, r) ==
    /\ r.pat \in {"/db/:db/retention_policies", "/db/:db/shards"}
    /\ r.args.db \notin s.dbs

\* A list request that passed the gate calls no mutating operation, and no
\* user summary in its response carries a password.
ListReadsOnly ==
    /\ \A op \in MutatingOps : Calls(last.log, op) = {}
    /\ store = last.pre
    /\ last.req.pat = "/users" =>
          \A i \in 1..Len(last.w.body) :
              \A j \in 1..Len(last.w.body[i].json) :
                  \A x \in last.w.body[i].json[j] : x.Password = Empty

\* C13, as stated: a list request that passes the gate is read-only, is
\* answered 200 whatever the store holds, and no user summary carries a
\* password.
ListAlwaysOK ==
    (Served /\ IsList(last.req) /\ HandlerCalls(last.log) # {}) =>
        /\ ListReadsOnly
        /\ last.w.status = StatusOK

\* C13, amended: a list request that passes the gate is read-only and no user
\* summary carries a password; it is answered 200, but 404 with the text
\* "database not found" when it names a database the store does not hold.
ListOKUnlessDatabaseMissing ==
    (Served /\ IsList(last.req) /\ HandlerCalls(last.log) # {}) =>
        /\ ListReadsOnly
        /\ IF OfMissingDatabase(last.pre, last.req)
           THEN /\ last.w.status = StatusNotFound
                /\ BodySays(last.w, ErrDatabaseNotFound)
           ELSE /\ last.w.status = StatusOK
                /\ Len(last.w.body) = 1
                /\ Len(last.w.body[1].json) = 1

\* The users are listed for a caller of a store that holds a password.
UserListReached ==
    /\ Served /\ AuthenticationEnabled
    /\ last.req.method = "GET" /\ last.req.pat = "/users"
    /\ HandlerCalls(last.log) # {}
    /\ \E n \in DOMAIN last.pre.users : last.pre.users[n].password # Empty
    /\ last.w.status = StatusOK
    /\ \E i \in 1..Len(last.w.body) :
          \E j \in 1..Len(last.w.body[i].json) : last.w.body[i].json[j] # {}

\* The domain errors of each kind.
NotFoundErrors ==
    {ErrUserNotFound, ErrDatabaseNotFound, ErrRetentionPolicyNotFound,
     ErrDataNodeNotFound}
AlreadyExistsErrors ==
    {ErrUserExists, ErrDatabaseExists, ErrRetentionPolicyExists,
     ErrDataNodeExists}

\* Whether the handler of the request finds its input invalid: input that
\* does not parse, a database without a name, a data node url that does not
\* parse.
LocallyInvalid(r) ==
    \/ ParseFails(r)
    \/ /\ r.method = "POST" /\ r.pat = "/db"
       /\ Field(r.body, "name", "") = ""
    \/ /\ r.method = "POST" /\ r.pat = "/data_nodes"
       /\ UrlParse(Field(r.body, "url", "")).err

\* C14: the status of a response is the one the table assigns to the error
\* its handler met: 404 for a NotFound error of the store, 409 for an
\* AlreadyExists error, 401 for an error of the extractor or the
\* authenticator, 400 for invalid input and for nothing else, and 500 for no
\* classified error.
ErrorStatusFollowsTable ==
    Served =>
        /\ \A i \in 1..Len(last.log) :
            /\ (last.log[i].op \in StoreOps /\ last.log[i].res \in NotFoundErrors)
                  => last.w.status = StatusNotFound
            /\ (last.log[i].op \in StoreOps /\ last.log[i].res \in AlreadyExistsErrors)
                  => last.w.status = StatusConflict
            /\ (last.log[i].op \in {"getUsernameAndPassword", "AuthenticatedUser"}
                    /\ last.log[i].res # Nil)
                  => last.w.status = StatusUnauthorized
        /\ last.w.status = StatusBadRequest =>
              (LocallyInvalid(last.req) /\ \A op \in StoreOps : Calls(last.log, op) = {})
        /\ last.w.status = StatusUnauthorized =>
              \E i \in 1..Len(last.log) :
                  /\ last.log[i].op \in {"getUsernameAndPassword", "AuthenticatedUser"}
                  /\ last.log[i].res # Nil
        /\ last.w.status = StatusConflict =>
              \E i \in 1..Len(last.log) :
                  last.log[i].op \in CreateOps /\ last.log[i].res \in AlreadyExistsErrors
        /\ last.w.status # StatusInternalServerError

\* A retention policy is created in a database the store does not hold, and
\* the answer is 404.
PolicyOfMissingDatabaseReached ==
    /\ Served
    /\ \E i \in Calls(last.log, "CreateRetentionPolicy") :
          last.log[i].res = ErrDatabaseNotFound
    /\ last.w.status = StatusNotFound

\* The headers Handler.ServeHTTP adds to every response.
CommonHeaders ==
    {<<"Access-Control-Allow-Origin", "*">>,
     <<"Access-Control-Max-Age", "2592000">>,
     <<"Access-Control-Allow-Methods", "GET, POST, PUT, DELETE">>,
     <<"Access-Control-Allow-Headers",
       "Origin, X-Requested-With, Content-Type, Accept">>,
     <<"X-Influxdb-Version", "Version">>}

\* C15: an OPTIONS request, on a path that is registered or not, with
\* authentication enabled or not and with any credentials, is answered 200
\* with an empty body and the CORS and version headers; no handler, extractor,
\* authenticator or store operation is called for it and the store is as it
\* was.
OptionsShortCircuits ==
    (Served /\ last.req.method = "OPTIONS") =>
        /\ last.w.status = StatusOK
        /\ last.w.body = <<>>
        /\ last.w.sent = CommonHeaders
        /\ last.log = <<>>
        /\ store = last.pre

\* With authentication enabled, an OPTIONS request for /users with a
\* malformed Authorization header has been answered on a store with users.
OptionsReached ==
    /\ Served /\ AuthenticationEnabled
    /\ last.req.method = "OPTIONS" /\ last.req.pat = "/users"
    /\ last.req.auth = HeaderNotBase64
    /\ DOMAIN last.pre.users # {}
    /\ last.w.status = StatusOK

\* C16: for an update-user request that passes the gate with a decodable
\* body, UpdateUser is called with the :user parameter of the path and the
\* password of the body.
UpdateForwardsPassword ==
    (Served /\ last.req.method = "PUT" /\ last.req.pat = "/users/:user"
        /\ HandlerCalls(last.log) # {} /\ last.req.body.ok) =>
        /\ Calls(last.log, "UpdateUser") # {}
        /\ \A i \in Calls(last.log, "UpdateUser") :
              last.log[i].arg =
                  <<last.req.args.user, Field(last.req.body, "password", Empty)>>

\* Whether the byte string holds a colon.
HasColon(s) == \E i \in 1..Len(s) : s[i] = Colon

\* C17, as stated: the extractor returns the user name and the password a
\* Basic header was built from, with no error, for every user name and
\* password over an alphabet that includes ':'.
HeaderRoundTrips ==
    last.phase = "extracted" =>
        last.res = [username |-> last.username, password |-> last.password,
                    err |-> Nil]

\* C17, amended: the extractor returns the user name and the password a Basic
\* header was built from, with no error, when neither holds a colon; when one
\* does, it returns the error "invalid Basic Authentication value".
ColonFreeHeaderRoundTrips ==
    last.phase = "extracted" =>
        IF HasColon(last.username) \/ HasColon(last.password)
        THEN last.res = [username |-> Empty, password |-> Empty,
                         err |-> ErrBasicValue]
        ELSE last.res = [username |-> last.username, password |-> last.password,
                         err |-> Nil]

\* A user name and a password of MaxLen bytes have come back from the
\* extractor.
RoundTripReached ==
    /\ last.phase = "extracted"
    /\ Len(last.username) = MaxLen /\ Len(last.password) = MaxLen
    /\ last.res.err = Nil
    /\ last.res.username = last.username

\* C18: a response that carries a JSON body is sent with the header
\* Content-Type: application/json, that is, the header is in the header map
\* when the status line and the headers are committed.
JSONBodyHasContentType ==
    (Served /\ \E i \in 1..Len(last.w.body) : last.w.body[i].json # <<>>) =>
        <<"Content-Type", "application/json">> \in last.w.sent

\* C19: under every interleaving of create-data-node and delete-data-node
\* requests, a create request whose CreateDataNode call succeeded ends
\* without a crash: the node is read back and the answer is 201 with the id
\* the store assigned.
CreatedNodeIsReturned ==
    \A i \in 1..NProcs :
        (procs[i].pc = "done" /\ Succeeded(procs[i].log, "CreateDataNode")) =>
            /\ ~procs[i].w.panicked
            /\ procs[i].w.status = StatusCreated
            /\ \E k \in 1..Len(procs[i].w.body) :
                  \E j \in 1..Len(procs[i].w.body[k].json) :
                      procs[i].w.body[k].json[j].ID \in 1..MaxNodeID

\* The user the credentials of the request being answered name.
Caller == getUsernameAndPassword(last.req).username

\* Store s with the admin flag of user name inverted.
FlipAdmin(s, name) == [s EXCEPT !.users[name].admin = ~@]

\* The same request answered on the same store but for the admin flag of the
\* caller.
Twin == ServeHTTP(NewContext(FlipAdmin(last.pre, Caller)), last.req)

\* The calls of a trace whose operation is in ops.
CallsIn(log, ops) == SelectSeq(log, LAMBDA e : e.op \in ops)

\* Whether two traces hold the same calls with the same results.
SameCalls(l1, l2) ==
    /\ Len(l1) = Len(l2)
    /\ \A i \in 1..Len(l1) :
          /\ l1[i].op = l2[i].op
          /\ l1[i].arg = l2[i].arg
          /\ l1[i].res = l2[i].res

\* Whether two stores are the same but for the admin flag of user name.
SameButAdminOf(s1, s2, name) ==
    /\ s1.dbs = s2.dbs /\ s1.rps = s2.rps
    /\ s1.nodes = s2.nodes /\ s1.nextID = s2.nextID
    /\ DOMAIN s1.users = DOMAIN s2.users
    /\ \A n \in DOMAIN s1.users :
          /\ s1.users[n].password = s2.users[n].password
          /\ n # name => s1.users[n].admin = s2.users[n].admin

\* A request with the credentials of a user, authentication enabled.
AuthenticatedRequest ==
    /\ Served /\ AuthenticationEnabled
    /\ last.req.method # "OPTIONS"
    /\ ValidCredentials(last.pre, last.req)

\* The answer t to the twin request has the calls of the store and the
\* response of the request being answered.
SameAnswer(t) ==
    /\ SameCalls(CallsIn(last.log, StoreOps \cup {"AuthenticatedUser"}),
                 CallsIn(t.log, StoreOps \cup {"AuthenticatedUser"}))
    /\ t.w = last.w

\* The answer t to the twin request has the mutating calls and the status of
\* the request being answered and leaves the same store but for the caller's
\* admin flag; off the user routes it has every call and the whole response.
SameEffect(t) ==
    /\ SameCalls(CallsIn(last.log, MutatingOps), CallsIn(t.log, MutatingOps))
    /\ t.w.status = last.w.status
    /\ SameButAdminOf(store, t.s, Caller)
    /\ last.req.pat # "/users" => SameAnswer(t)

\* C20, as stated: with authentication enabled, two runs that differ only in
\* the admin flag of the authenticated caller make the same calls of the
\* store and give the same response.
AdminFlagChangesNothing == AuthenticatedRequest => SameAnswer(Twin)

\* C20, amended: with authentication enabled, two runs that differ only in
\* the admin flag of the authenticated caller make the same mutating calls,
\* give the same status and leave stores that differ in that flag only; for
\* every route but GET /users and POST /users all store calls and the whole
\* response are the same.
AdminFlagChangesNoEffect == AuthenticatedRequest => SameEffect(Twin)

\* A caller who is no admin has deleted a user who is one.
NonAdminDeletesAdmin ==
    /\ AuthenticatedRequest
    /\ ~last.pre.users[Caller].admin
    /\ Succeeded(last.log, "DeleteUser")
    /\ last.pre.users[last.req.args.user].admin
    /\ last.w.status = StatusNoContent

====
